---------------------------- MODULE Spec2Model ----------------------------
(***************************************************************************)
(* Model of src/extract.py: convert_excel_to_csv, the batch conversion of  *)
(* every spreadsheet under SOURCE_FOLDER into a CSV under OUTPUT_FOLDER.   *)
(*                                                                         *)
(* A file name is the sequence of its dot-separated segments               *)
(* ("c.xlsx" is <<"c", "xlsx">>, ".xls" is <<"", "xls">>), and a path is   *)
(* the sequence of its names.  pandas.read_excel, DataFrame.to_csv and the *)
(* append to failed_files.txt are calls into the environment: what they    *)
(* return or raise is an input of the step that calls them.  A read of an  *)
(* unchanged source file returns what it returned before (readMemo).       *)
(***************************************************************************)
EXTENDS Naturals, Sequences, FiniteSets

VARIABLES
    os_name,       \* os.name of the machine the script runs on, fixed
    srcTree,       \* the files under SOURCE_FOLDER (full paths), fixed
    fs,            \* the tree under OUTPUT_FOLDER: full path -> node
    failed_files,  \* LOG_FOLDER/failed_files.txt: the lines appended so far
    readMemo,      \* file -> strategy -> what read_excel returned, or Unread
    pc,            \* "start", "loop", "done" (summary logged), "aborted"
    run,           \* which invocation of convert_excel_to_csv this is
    excel_files,   \* line 47: the discovered files, in processing order
    idx,           \* position of the for loop of line 55 in excel_files
    total,         \* line 40
    succeeded,     \* line 41
    failed,        \* line 42
    skipped,       \* line 43
    hist,          \* history: one record per loop iteration of this run
    prevHist,      \* history: hist of the previous run
    fsAtStart,     \* history: fs when this run began
    logAtStart,    \* history: failed_files when this run began
    writes,        \* history: destination -> the source files whose to_csv
                   \*          call created or changed the file there
    faults         \* history: how many calls of to_csv and appends to
                   \*          failed_files.txt have raised so far

vars == <<os_name, srcTree, fs, failed_files, readMemo, pc, run, excel_files,
          idx, total, succeeded, failed, skipped, hist, prevHist, fsAtStart,
          logAtStart, writes, faults>>

-----------------------------------------------------------------------------
(* Bounds *)

\* the largest number of files in the source tree
MaxFiles == 2

\* how many times the script is run over the same folders
MaxRuns == 2

\* how many calls of to_csv and appends to failed_files.txt raise, over all
\* the runs
MaxFaults == 1

-----------------------------------------------------------------------------
(* Configuration, lines 17-18 *)

SOURCE_FOLDER == << <<"source">> >>

OUTPUT_FOLDER == << <<"output">> >>

\* line 46, each ".ext" as the segment after the dot
excel_extensions == <<"xls", "xlsx", "xlsm", "xlsb">>

\* line 74; None (pandas decides) is written "default"
engines_to_try == <<"xlrd", "openpyxl", "default">>

\* line 94: sheet_name=0, header=None, no engine given
NoHeader == "noheader"

Strategies == {"xlrd", "openpyxl", "default", NoHeader}

-----------------------------------------------------------------------------
(* Paths (pathlib) *)

Front(s) == SubSeq(s, 1, Len(s) - 1)

Last(s) == s[Len(s)]

\* os.path.normcase of a segment on a machine that ignores case, for the
\* segments the source trees use
NormCase(segment) ==
    CASE segment = "XLSX"   -> "xlsx"
      [] segment = "REPORT" -> "report"
      [] OTHER              -> segment

\* Path.rglob(f'*{ext}'), line 50: the pattern "*.ext" against a name.  The
\* match is made on the letters as they are where os.name is "posix" and
\* with case ignored where it is "nt".
GlobMatches(name, ext) ==
    /\ Len(name) >= 2
    /\ \/ Last(name) = ext
       \/ os_name = "nt" /\ NormCase(Last(name)) = ext

\* PurePath.stem: the name up to its last dot, or the whole name when the
\* last dot is the first or the last character, or there is no dot
Stem(name) ==
    IF /\ Len(name) >= 2
       /\ (Len(name) > 2 \/ name[1] # "")
       /\ Last(name) # ""
    THEN Front(name)
    ELSE name

\* file_path.relative_to(SOURCE_FOLDER), line 60
RelativeTo(path, base) == SubSeq(path, Len(base) + 1, Len(path))

\* a mutant of OutputPath: the source's own name is kept whole
OutputPathKeepName(file_path) ==
    OUTPUT_FOLDER \o Front(RelativeTo(file_path, SOURCE_FOLDER))
                  \o << Last(file_path) \o <<"csv">> >>

\* a mutant of OutputPath: relative_path.parent is left out
OutputPathFlat(file_path) ==
    OUTPUT_FOLDER \o << Stem(Last(file_path)) \o <<"csv">> >>

\* line 61: Path(OUTPUT_FOLDER) / relative_path.parent / (stem + '.csv')
OutputPath(file_path) ==
    OUTPUT_FOLDER \o Front(RelativeTo(file_path, SOURCE_FOLDER))
                  \o << Stem(Last(file_path)) \o <<"csv">> >>


-----------------------------------------------------------------------------
(* The tree under OUTPUT_FOLDER *)

\* what a path holds when it is no regular file
NoContent == [of |-> <<>>, body |-> "", header |-> "", whole |-> FALSE]

\* a file that was in the output tree before the first run
OldContent == [of |-> <<>>, body |-> "old", header |-> "old", whole |-> TRUE]

Absent == [kind |-> "none", data |-> NoContent]

Directory == [kind |-> "dir", data |-> NoContent]

FileNode(c) == [kind |-> "file", data |-> c]

\* the directories mkdir(parents=True) walks: dir and its ancestors below
\* OUTPUT_FOLDER, which line 22 created
AncestorDirs(dir) ==
    {SubSeq(dir, 1, k) : k \in (Len(OUTPUT_FOLDER) + 1) .. Len(dir)}

\* line 62 raises when a regular file is where a directory is needed:
\* exist_ok=True forgives an existing directory only
MkdirRaises(f, dir) == \E d \in AncestorDirs(dir) : f[d].kind = "file"

MkdirMessage(f, dir) ==
    IF f[dir].kind = "file"
    THEN "[Errno 17] File exists"
    ELSE "[Errno 20] Not a directory"

\* line 62, when it does not raise
Mkdir(f, dir) ==
    [p \in DOMAIN f |-> IF p \in AncestorDirs(dir) THEN Directory ELSE f[p]]

\* a mutant of Exists: the CSV is never found
ExistsNever(f, path) == FALSE

\* a mutant of Exists: only a CSV that was written to its end is found
ExistsWhole(f, path) == f[path].kind = "file" /\ f[path].data.whole

\* output_path.exists(), line 65
\* a mutant of Exists: the test is made on output_path.parent, which line 62
\* has just made
ExistsParent(f, path) == TRUE

\* output_path.exists(), line 65
Exists(f, path) == f[path].kind # "none"

-----------------------------------------------------------------------------
(* The reader: pandas.read_excel *)

\* what a call of read_excel does: it raises, or returns a DataFrame with
\* no rows, or one with rows
Answers == {"err", "empty", "data"}

Unread == "unread"

\* df = None, line 73
None == [isNone |-> TRUE, of |-> <<>>, engine |-> "", columns |-> "",
         empty |-> TRUE]

\* lines 79, 81, 94 when read_excel returns: the first sheet of file_path as
\* read by one strategy; header=None labels the columns 0..n-1 and keeps
\* row 1 as data
ReadExcel(file_path, strategy, answer) ==
    [isNone  |-> FALSE,
     of      |-> file_path,
     engine  |-> strategy,
     columns |-> IF strategy = NoHeader THEN "range" ELSE "names",
     empty   |-> (answer = "empty")]

\* line 83 (and 99): df is not None and not df.empty
HasData(df) == ~df.isNone /\ ~df.empty

\* a mutant of Breaks: the loop runs through every engine
BreaksNever(got) == FALSE

\* lines 83-85: a table with rows ends the loop
Breaks(got) == HasData(got)

RECURSIVE EngineLoop(_, _, _, _, _)
\* lines 76-88: the for loop from engine number k on, df and the calls made
\* so far being as given
EngineLoop(file_path, res, k, df, calls) ==
    IF k > Len(engines_to_try)
    THEN [df |-> df, calls |-> calls]
    ELSE LET engine == engines_to_try[k]
             called == Append(calls, engine)
         IN  IF res[engine] = "err"
             THEN EngineLoop(file_path, res, k + 1, df, called)
             ELSE LET got == ReadExcel(file_path, engine, res[engine])
                  IN  IF Breaks(got)
                      THEN [df |-> got, calls |-> called]
                      ELSE EngineLoop(file_path, res, k + 1, got, called)

\* a mutant of NeedsFinalAttempt: an empty table asks for the retry too
NeedsFinalAttemptOnEmpty(df) == ~HasData(df)

\* line 91: if df is None
NeedsFinalAttempt(df) == df.isNone

\* lines 91-96: one more read, header detection off, its error passed over
FinalAttempt(file_path, res, loop) ==
    IF NeedsFinalAttempt(loop.df)
    THEN [df    |-> IF res[NoHeader] = "err"
                    THEN loop.df
                    ELSE ReadExcel(file_path, NoHeader, res[NoHeader]),
          calls |-> Append(loop.calls, NoHeader)]
    ELSE loop

\* lines 73-96
ReadAny(file_path, res) ==
    FinalAttempt(file_path, res, EngineLoop(file_path, res, 1, None, <<>>))

-----------------------------------------------------------------------------
(* The writer: DataFrame.to_csv *)

\* what a call of to_csv does: it writes the file, or raises before the file
\* is created, or raises after it wrote a part of it
CsvAnswers == {"ok", "raise_before", "raise_partial"}

\* df.to_csv(output_path, index=False), line 100: the column labels as the
\* first line, then the rows
ToCsv(df, answer) ==
    [of     |-> df.of,
     body   |-> df.engine,
     header |-> df.columns,
     whole  |-> (answer = "ok")]

ToCsvMessage == "to_csv failed"

\* line 104
NoDataMessage == "No data could be read from file"


-----------------------------------------------------------------------------
(* One iteration of the loop of line 55 *)

\* lines 59-104, the body of the try, for file_path over the tree f:
\* how it ends ("skip": the continue of line 68, "saved": line 102,
\* "raised": an exception reaches line 106), the message raised, the tree
\* it leaves, the reads it made, the table it held, whether to_csv wrote
TryBody(file_path, f, res, csv) ==
    LET output_path == OutputPath(file_path)
        parent      == Front(output_path)
        made        == Mkdir(f, parent)
        read        == ReadAny(file_path, res)
        written     == [made EXCEPT
                          ![output_path] = FileNode(ToCsv(read.df, csv))]
    IN  IF MkdirRaises(f, parent)
        THEN [end |-> "raised", reason |-> MkdirMessage(f, parent), fs |-> f,
              calls |-> <<>>, df |-> None, wrote |-> FALSE]
        ELSE IF Exists(made, output_path)
        THEN [end |-> "skip", reason |-> "", fs |-> made,
              calls |-> <<>>, df |-> None, wrote |-> FALSE]
        ELSE IF ~HasData(read.df)
        THEN [end |-> "raised", reason |-> NoDataMessage, fs |-> made,
              calls |-> read.calls, df |-> read.df, wrote |-> FALSE]
        ELSE IF csv = "ok"
        THEN [end |-> "saved", reason |-> "", fs |-> written,
              calls |-> read.calls, df |-> read.df, wrote |-> TRUE]
        ELSE [end |-> "raised", reason |-> ToCsvMessage,
              fs |-> IF csv = "raise_partial" THEN written ELSE made,
              calls |-> read.calls, df |-> read.df,
              wrote |-> (csv = "raise_partial")]

\* a mutant of SkippedAfter: line 67 is left out
SkippedAfterForgotten(end) == skipped

\* line 67
SkippedAfter(end) == IF end = "skip" THEN skipped + 1 ELSE skipped

\* line 102
SucceededAfter(end) == IF end = "saved" THEN succeeded + 1 ELSE succeeded

\* line 108
FailedAfter(end) == IF end = "raised" THEN failed + 1 ELSE failed

\* the outcome the iteration records
Outcome(end) ==
    CASE end = "skip"   -> "Skipped"
      [] end = "saved"  -> "Succeeded"
      [] end = "raised" -> "Failed"

\* line 112: the line written to failed_files.txt (its timestamp left out)
FailureRecord(file_path, reason) == [path |-> file_path, reason |-> reason]

\* the reads of res that the step made, remembered
Remember(memo, file_path, res, calls) ==
    [memo EXCEPT ![file_path] =
        [s \in Strategies |->
            IF \E i \in 1 .. Len(calls) : calls[i] = s
            THEN res[s] ELSE memo[file_path][s]]]

\* res answers as the earlier reads of file_path did
Consistent(memo, file_path, res) ==
    \A s \in Strategies : memo[file_path][s] \in {Unread, res[s]}

\* The inputs of one iteration.  An answer is an input only of a call that
\* is made: the answer of a call the iteration does not make is held at a
\* fixed value, so that each iteration is generated once.
ReadInputs(memo, file_path) ==
    {res \in [Strategies -> Answers] :
        /\ Consistent(memo, file_path, res)
        /\ LET calls == ReadAny(file_path, res).calls
               made  == {calls[i] : i \in 1 .. Len(calls)}
           IN  \A s \in Strategies \ made :
                  res[s] = IF memo[file_path][s] = Unread
                           THEN "err" ELSE memo[file_path][s]}

CsvInputs(file_path, f, res) ==
    IF /\ TryBody(file_path, f, res, "raise_before").reason = ToCsvMessage
       /\ faults < MaxFaults
    THEN CsvAnswers ELSE {"ok"}

CsvFault(body) == IF body.reason = ToCsvMessage THEN 1 ELSE 0

LogInputs(body) ==
    IF body.end = "raised" /\ faults + CsvFault(body) < MaxFaults
    THEN BOOLEAN ELSE {TRUE}

\* lines 55-112 for the file at idx: res is what each read_excel call
\* does, csv what to_csv does, logOk whether failed_files.txt can be opened
\* and written.  When it cannot, line 111 raises inside the except block
\* and the exception leaves convert_excel_to_csv.
ProcessFile ==
    /\ pc = "loop"
    /\ idx <= Len(excel_files)
    /\ \E res \in ReadInputs(readMemo, excel_files[idx]) :
       \E csv \in CsvInputs(excel_files[idx], fs, res) :
       \E logOk \in LogInputs(TryBody(excel_files[idx], fs, res, csv)) :
          LET file_path == excel_files[idx]
              body      == TryBody(file_path, fs, res, csv)
              logged    == body.end = "raised" /\ logOk
              escaped   == body.end = "raised" /\ ~logOk
          IN  /\ total' = total + 1
              /\ skipped' = SkippedAfter(body.end)
              /\ succeeded' = SucceededAfter(body.end)
              /\ failed' = FailedAfter(body.end)
              /\ fs' = body.fs
              /\ readMemo' = Remember(readMemo, file_path, res, body.calls)
              /\ failed_files' =
                    IF logged
                    THEN Append(failed_files,
                                FailureRecord(file_path, body.reason))
                    ELSE failed_files
              /\ pc' = IF escaped THEN "aborted" ELSE "loop"
              /\ idx' = IF escaped THEN idx ELSE idx + 1
              /\ hist' = Append(hist,
                    [file    |-> file_path,
                     dest    |-> OutputPath(file_path),
                     before  |-> fs[OutputPath(file_path)],
                     after   |-> body.fs[OutputPath(file_path)],
                     outcome |-> Outcome(body.end),
                     reason  |-> body.reason,
                     calls   |-> body.calls,
                     df      |-> body.df,
                     wrote   |-> body.wrote,
                     logged  |-> logged,
                     escaped |-> escaped])
              /\ writes' =
                    IF body.wrote
                    THEN [writes EXCEPT ![OutputPath(file_path)] =
                             Append(@, file_path)]
                    ELSE writes
              /\ faults' = faults + CsvFault(body) + IF escaped THEN 1 ELSE 0
    /\ UNCHANGED <<os_name, srcTree, run, excel_files, prevHist, fsAtStart,
                   logAtStart>>

\* lines 114-124: the loop is over, the summary is logged
Summary ==
    /\ pc = "loop"
    /\ idx > Len(excel_files)
    /\ pc' = "done"
    /\ UNCHANGED <<os_name, srcTree, fs, failed_files, readMemo, run,
                   excel_files, idx, total, succeeded, failed, skipped, hist,
                   prevHist, fsAtStart, logAtStart, writes, faults>>

-----------------------------------------------------------------------------
(* Discovery, lines 39-52 *)

\* the orders in which one rglob may yield the set S
RECURSIVE Orders(_)
Orders(S) ==
    IF S = {} THEN {<<>>}
    ELSE UNION {{<<x>> \o o : o \in Orders(S \ {x})} : x \in S}

\* Path(SOURCE_FOLDER).rglob(f'*{ext}'), line 50
Rglob(tree, ext) == {p \in tree : GlobMatches(Last(p), ext)}

RECURSIVE Discovered(_, _)
\* lines 47-50 from extension number k on: the lists excel_files may be
Discovered(tree, k) ==
    IF k > Len(excel_extensions) THEN {<<>>}
    ELSE {a \o b : a \in Orders(Rglob(tree, excel_extensions[k])),
                   b \in Discovered(tree, k + 1)}

\* lines 39-52 of a call of convert_excel_to_csv
Discover ==
    /\ pc = "start"
    /\ total' = 0
    /\ succeeded' = 0
    /\ failed' = 0
    /\ skipped' = 0
    /\ excel_files' \in Discovered(srcTree, 1)
    /\ idx' = 1
    /\ pc' = "loop"
    /\ hist' = <<>>
    /\ prevHist' = hist
    /\ fsAtStart' = fs
    /\ logAtStart' = failed_files
    /\ UNCHANGED <<os_name, srcTree, fs, failed_files, readMemo, run, writes,
                   faults>>

\* line 128, once more: the script is run again over the same folders
RunAgain ==
    /\ pc \in {"done", "aborted"}
    /\ run < MaxRuns
    /\ run' = run + 1
    /\ pc' = "start"
    /\ UNCHANGED <<os_name, srcTree, fs, failed_files, readMemo, excel_files,
                   idx, total, succeeded, failed, skipped, hist, prevHist,
                   fsAtStart, logAtStart, writes, faults>>

-----------------------------------------------------------------------------
(* The folders before the first run *)

FileC_xls == SOURCE_FOLDER \o << <<"c", "xls">> >>

FileC_xlsx == SOURCE_FOLDER \o << <<"c", "xlsx">> >>

FileA_C_xlsm == SOURCE_FOLDER \o << <<"a">>, <<"c", "xlsm">> >>

\* the files a source tree is made of
SourceUniverse == {FileC_xls, FileC_xlsx, FileA_C_xlsm}

SourceTrees == {t \in SUBSET SourceUniverse : Cardinality(t) <= MaxFiles}

Destinations == {OutputPath(p) : p \in SourceUniverse}

\* every path of the output tree the run may look at
OutputPaths ==
    Destinations \cup UNION {AncestorDirs(Front(d)) : d \in Destinations}

\* an output tree left by earlier work: old files, the directories that hold
\* them, and regular files where a directory is wanted
OutputTrees ==
    {f \in [OutputPaths -> {Absent, Directory, FileNode(OldContent)}] :
        \A p \in OutputPaths :
            /\ (p \in Destinations => f[p] # Directory)
            /\ (p \notin Destinations /\ f[p] = Directory =>
                  \E q \in Destinations : Front(q) = p /\ f[q] # Absent)
            /\ \A d \in AncestorDirs(Front(p)) :
                  f[p] # Absent => f[d] = Directory}

\* everything but the two folders
InitRun ==
    /\ failed_files = <<>>
    /\ readMemo = [p \in SourceUniverse |-> [s \in Strategies |-> Unread]]
    /\ pc = "start"
    /\ run = 1
    /\ excel_files = <<>>
    /\ idx = 1
    /\ total = 0
    /\ succeeded = 0
    /\ failed = 0
    /\ skipped = 0
    /\ hist = <<>>
    /\ prevHist = <<>>
    /\ fsAtStart = fs
    /\ logAtStart = failed_files
    /\ writes = [d \in Destinations |-> <<>>]
    /\ faults = 0

\* the names of SourceUniverse are in lower case: rglob finds the same files
\* whatever os.name is
Init ==
    /\ os_name = "posix"
    /\ srcTree \in SourceTrees
    /\ fs \in OutputTrees
    /\ InitRun

Next == Discover \/ ProcessFile \/ Summary \/ RunAgain

Spec == Init /\ [][Next]_vars

-----------------------------------------------------------------------------
(* Discovery and the mapping of paths alone, over more kinds of names *)

PathDirs == {<<>>, << <<"a">> >>}

\* "c.xls", "c.xlsx", "d.xls", ".xls", ".xls.xlsx", "c.d.xls", "c.txt",
\* "REPORT.XLSX"
PathNames ==
    {<<"c", "xls">>, <<"c", "xlsx">>, <<"d", "xls">>, <<"", "xls">>,
     <<"", "xls", "xlsx">>, <<"c", "d", "xls">>, <<"c", "txt">>,
     <<"REPORT", "XLSX">>}

\* a file two directories down: source/a/b/c.xlsx
FileA_B_C_xlsx == SOURCE_FOLDER \o << <<"a">>, <<"b">>, <<"c", "xlsx">> >>

\* the values of os.name
OsNames == {"posix", "nt"}

PathUniverse ==
    {SOURCE_FOLDER \o d \o <<n>> : d \in PathDirs, n \in PathNames}
        \cup {FileA_B_C_xlsx}

PathTrees == {t \in SUBSET PathUniverse : Cardinality(t) <= MaxFiles}

InitPaths ==
    /\ os_name \in OsNames
    /\ srcTree \in PathTrees
    /\ fs = [p \in OutputPaths |-> Absent]
    /\ InitRun

NextPaths == Discover

SpecPaths == InitPaths /\ [][NextPaths]_vars


-----------------------------------------------------------------------------
(* Properties *)

Steps == 1 .. Len(hist)

CountOf(h, outcome) ==
    Cardinality({i \in 1 .. Len(h) : h[i].outcome = outcome})

\* what the read of file by strategy returned, or Unread
Answer(file, strategy) == readMemo[file][strategy]

\* the number in engines_to_try of the first engine that returned a table
\* with rows for file, 0 when none did
FirstWithData(file) ==
    LET K == {k \in 1 .. Len(engines_to_try) :
                 Answer(file, engines_to_try[k]) = "data"}
    IN  IF K = {} THEN 0 ELSE CHOOSE k \in K : \A j \in K : k <= j

C2_AllSkippedOnSecondRun ==
    (run = 2 /\ pc = "done" /\ faults = 0 /\ Len(prevHist) = Len(excel_files))
        => /\ succeeded = 0
           /\ failed = 0
           /\ skipped = total
           /\ fs = fsAtStart

\* C2, amended: a file that the run before recorded as Succeeded or Skipped
\* is recorded as Skipped whenever this run processes it, and a run leaves
\* every output file that was there when it began as it was.
C2_DoneFilesAreSkipped ==
    /\ \A i \in Steps : \A j \in 1 .. Len(prevHist) :
          (/\ hist[i].file = prevHist[j].file
           /\ prevHist[j].outcome \in {"Succeeded", "Skipped"})
              => hist[i].outcome = "Skipped"
    /\ \A p \in DOMAIN fs :
          fsAtStart[p].kind = "file" => fs[p] = fsAtStart[p]

\* a second run that skipped what the first converted and failed again on
\* what the first failed on
C2_Witness ==
    /\ run = 2
    /\ pc = "done"
    /\ \E i \in Steps : \E j \in 1 .. Len(prevHist) :
          /\ hist[i].file = prevHist[j].file
          /\ prevHist[j].outcome = "Succeeded"
          /\ hist[i].outcome = "Skipped"
    /\ \E i \in Steps : \E j \in 1 .. Len(prevHist) :
          /\ hist[i].file = prevHist[j].file
          /\ prevHist[j].outcome = "Failed"
          /\ hist[i].outcome = "Failed"

\* C3: every error that reaches the per-file boundary becomes a Failed
\* outcome with the error's message as its reason and one record in
\* failed_files.txt, and no exception leaves the loop.
C3_ErrorsContained ==
    \A i \in Steps :
        hist[i].outcome = "Failed" =>
            /\ hist[i].reason # ""
            /\ hist[i].logged
            /\ \E k \in 1 .. Len(failed_files) :
                  failed_files[k] =
                      FailureRecord(hist[i].file, hist[i].reason)
            /\ ~hist[i].escaped

\* C4: when the append to failed_files.txt raises, the file is still
\* counted as Failed and the run goes on to the next file and the summary.
C4_LogFailureContained ==
    \A i \in Steps :
        (hist[i].outcome = "Failed" /\ ~hist[i].logged) =>
            /\ failed >= 1
            /\ pc # "aborted"

\* C5, as stated: once an engine has returned a table with rows, the reads
\* made are the engines up to it in order, the table kept is that engine's,
\* and the outcome is Succeeded.
C5_FirstSuccessSucceeds ==
    \A i \in Steps :
        LET k == FirstWithData(hist[i].file)
        IN  (hist[i].calls # <<>> /\ k > 0) =>
                /\ hist[i].calls = SubSeq(engines_to_try, 1, k)
                /\ hist[i].df =
                      ReadExcel(hist[i].file, engines_to_try[k], "data")
                /\ hist[i].outcome = "Succeeded"

\* C5, amended: the engines are read in the order xlrd, openpyxl, default;
\* an engine that raises or returns no rows is followed by the next, and
\* when none returns rows all three were read.  Once an engine has returned
\* rows no other read is made (no later engine, no read without header),
\* the table handed to to_csv is that engine's, no read error is the reason
\* of the outcome, and the outcome is Succeeded, the destination holding
\* that table's CSV, unless to_csv itself raises.
C5_FirstSuccessWins ==
    \A i \in Steps :
        LET file  == hist[i].file
            calls == hist[i].calls
            k     == FirstWithData(file)
            table == ReadExcel(file, engines_to_try[k], "data")
        IN  calls # <<>> =>
              /\ \A j \in 1 .. Len(calls) :
                    calls[j] = IF j <= Len(engines_to_try)
                               THEN engines_to_try[j] ELSE NoHeader
              /\ Len(calls) <= Len(engines_to_try) + 1
              /\ k = 0 => Len(calls) >= Len(engines_to_try)
              /\ k > 0 =>
                    /\ calls = SubSeq(engines_to_try, 1, k)
                    /\ \A j \in 1 .. (k - 1) :
                          Answer(file, engines_to_try[j]) \in {"err", "empty"}
                    /\ hist[i].df = table
                    /\ \/ /\ hist[i].outcome = "Succeeded"
                          /\ hist[i].after = FileNode(ToCsv(table, "ok"))
                       \/ /\ hist[i].outcome = "Failed"
                          /\ hist[i].reason = ToCsvMessage

\* xlrd raised, openpyxl returned no rows, the default engine returned rows
\* and its table was saved
C5_Witness ==
    \E i \in Steps :
        /\ Answer(hist[i].file, "xlrd") = "err"
        /\ Answer(hist[i].file, "openpyxl") = "empty"
        /\ Answer(hist[i].file, "default") = "data"
        /\ hist[i].calls = engines_to_try
        /\ hist[i].outcome = "Succeeded"
        /\ hist[i].after.data.body = "default"

\* C6: whenever the three engines were read and none returned rows, raising
\* and returning no rows alike, the read without header is made, once,
\* before the outcome is decided.  (Stated for the runs in which no to_csv
\* call and no append to failed_files.txt has raised.)
C6_FinalAttemptAlways ==
    \A i \in Steps :
        (/\ faults = 0
         /\ Len(hist[i].calls) >= Len(engines_to_try)
         /\ FirstWithData(hist[i].file) = 0)
            => /\ Len(hist[i].calls) = Len(engines_to_try) + 1
               /\ hist[i].calls[Len(hist[i].calls)] = NoHeader

\* C7: a file whose destination exists when it is processed is recorded as
\* Skipped; no read is made, to_csv is not called, the destination is what
\* it was (then and ever after), nothing is appended to failed_files.txt
\* and the loop goes on.
C7_SkipLeavesAll ==
    \A i \in Steps :
        hist[i].before.kind # "none" =>
            /\ hist[i].outcome = "Skipped"
            /\ hist[i].calls = <<>>
            /\ ~hist[i].wrote
            /\ hist[i].after = hist[i].before
            /\ fs[hist[i].dest] = hist[i].before
            /\ ~hist[i].logged
            /\ ~hist[i].escaped
            /\ (i < Len(hist) \/ pc # "aborted")

\* a file was skipped over an old CSV and the file after it was processed
C7_Witness ==
    \E i \in Steps :
        /\ hist[i].before = FileNode(OldContent)
        /\ hist[i].outcome = "Skipped"
        /\ i < Len(hist)

\* C8: a file with no CSV yet whose every read returned no rows or raised
\* is Failed with the reason "No data could be read from file", gets one
\* record in failed_files.txt, and no file is created at its destination.
C8_EmptyFileFails ==
    \A i \in Steps :
        (/\ hist[i].before.kind = "none"
         /\ hist[i].calls # <<>>
         /\ \A j \in 1 .. Len(hist[i].calls) :
               Answer(hist[i].file, hist[i].calls[j]) \in {"err", "empty"})
            => /\ hist[i].outcome = "Failed"
               /\ hist[i].reason = "No data could be read from file"
               /\ hist[i].logged
               /\ hist[i].after = Absent

\* the directory a discovered file is in, below SOURCE_FOLDER
DirOf(p) == Front(RelativeTo(p, SOURCE_FOLDER))

Discoveries == {excel_files[i] : i \in 1 .. Len(excel_files)}

\* C9, as stated: two distinct discovered files have distinct destinations.
C9_DestinationsInjective ==
    \A p, q \in Discoveries : p # q => OutputPath(p) # OutputPath(q)

\* C9, amended: two distinct discovered files have the same destination
\* exactly when they are in the same directory and have the same stem, as
\* c.xls and c.xlsx (and as .xls and .xls.xlsx, whose stems are both .xls).
C9_InjectiveUpToExtension ==
    \A p, q \in Discoveries :
        (OutputPath(p) = OutputPath(q)) <=>
            (DirOf(p) = DirOf(q) /\ Stem(Last(p)) = Stem(Last(q)))

\* two files of one directory with different stems, and two directories
C9_Witness ==
    \E p, q \in Discoveries :
        /\ DirOf(p) = DirOf(q)
        /\ Last(p) = <<"c", "xls">>
        /\ Last(q) = <<"d", "xls">>
        /\ OutputPath(p) # OutputPath(q)

\* C10: over all the runs no destination is written by more than one source
\* file nor more than once.
C10_WrittenAtMostOnce ==
    \A d \in DOMAIN writes : Len(writes[d]) <= 1

\* two sources of one destination, both processed in two finished runs, the
\* destination written once
C10_Witness ==
    /\ run = 2
    /\ pc = "done"
    /\ {FileC_xls, FileC_xlsx} \subseteq Discoveries
    /\ Len(writes[OutputPath(FileC_xls)]) = 1

\* a name that is a dot and an extension and nothing else, as ".xls"
OnlyExtension(name) == Len(name) = 2 /\ name[1] = ""

\* a name with the part after its last dot replaced by csv
WithCsv(name) == Front(name) \o <<"csv">>

\* C11, as stated: the destination of every discovered file is the output
\* folder, then the file's directory below the source folder, then the
\* file's name with its extension replaced by csv.
C11_ExtensionReplaced ==
    \A p \in Discoveries :
        OutputPath(p) = OUTPUT_FOLDER \o DirOf(p) \o <<WithCsv(Last(p))>>

\* C11, amended: as stated for every discovered file whose name has
\* something before its extension; a file named by an extension alone
\* (.xls) keeps its whole name and csv is added to it (.xls.csv).
C11_PathFidelity ==
    \A p \in Discoveries :
        OutputPath(p) =
            OUTPUT_FOLDER \o DirOf(p) \o
                << IF OnlyExtension(Last(p))
                   THEN Last(p) \o <<"csv">>
                   ELSE WithCsv(Last(p)) >>

\* source/a/b/c.xlsx is discovered and goes to output/a/b/c.csv, next to a
\* discovered file named by an extension alone
C11_Witness ==
    /\ FileA_B_C_xlsx \in Discoveries
    /\ OutputPath(FileA_B_C_xlsx) =
          OUTPUT_FOLDER \o << <<"a">>, <<"b">>, <<"c", "csv">> >>
    /\ \E p \in Discoveries : OnlyExtension(Last(p))

\* the sequence b begins with the sequence a
IsPrefix(a, b) == Len(a) <= Len(b) /\ SubSeq(b, 1, Len(a)) = a

\* C12: the failure log only grows, and the records appended during a run
\* are one for each Failed outcome and none for the others, so that their
\* number is the run's failed counter.
C12_LogMatchesFailed ==
    /\ IsPrefix(logAtStart, failed_files)
    /\ Len(failed_files) = Len(logAtStart) + failed
    /\ \A i \in Steps :
          /\ hist[i].outcome = "Failed" =>
                /\ hist[i].logged
                /\ \E k \in Len(logAtStart) + 1 .. Len(failed_files) :
                      failed_files[k] =
                          FailureRecord(hist[i].file, hist[i].reason)
          /\ hist[i].outcome \in {"Succeeded", "Skipped"} => ~hist[i].logged

\* C13: a run ends by logging the summary, once, after every discovered
\* file has been given an outcome, with total the number of discovered
\* files.  A run in its loop has given an outcome to the files before idx
\* and can take its next step; a run never stops short of the summary; and
\* when the summary has been logged every discovered file has its outcome.
C13_SummaryAfterAllFiles ==
    /\ pc = "loop" =>
          /\ idx <= Len(excel_files) + 1
          /\ Len(hist) = idx - 1
          /\ ENABLED (ProcessFile \/ Summary)
    /\ pc # "aborted"
    /\ pc = "done" =>
          /\ total = Len(excel_files)
          /\ Len(hist) = Len(excel_files)
          /\ \A i \in Steps : hist[i].file = excel_files[i]
          /\ ~ENABLED Summary

\* the extensions of line 46
Extensions == {excel_extensions[k] : k \in 1 .. Len(excel_extensions)}

\* the files of the source tree whose extension, with case ignored, is one
\* of line 46
ExcelFilesIgnoringCase ==
    {p \in srcTree :
        Len(Last(p)) >= 2 /\ NormCase(Last(Last(p))) \in Extensions}

\* C14: once discovery is over, excel_files holds every file of the source
\* tree whose extension, compared with case ignored, is .xls, .xlsx, .xlsm
\* or .xlsb (REPORT.XLSX too), each of them once, and no other file.
C14_DiscoveryIgnoresCase ==
    pc # "start" =>
        /\ Discoveries = ExcelFilesIgnoringCase
        /\ Len(excel_files) = Cardinality(Discoveries)

\* C15: the file written for a table read with column labels begins with
\* the line of those labels, and the file written for a table of the
\* header=None read has no header line.
C15_HeaderOnlyWithLabels ==
    \A i \in Steps :
        hist[i].outcome = "Succeeded" =>
            /\ hist[i].df.engine # NoHeader =>
                  hist[i].after.data.header = "names"
            /\ hist[i].df.engine = NoHeader =>
                  hist[i].after.data.header = ""

\* C16: an iteration that ends Failed, a raise of to_csv included, leaves
\* what was at the destination as it found it, and a file that was Failed
\* in the previous run is not Skipped in this one.
C16_FailedLeavesDestination ==
    /\ \A i \in Steps :
          hist[i].outcome = "Failed" =>
              /\ ~hist[i].wrote
              /\ hist[i].after = hist[i].before
    /\ \A i \in Steps : \A j \in 1 .. Len(prevHist) :
          (prevHist[j].file = hist[i].file /\ prevHist[j].outcome = "Failed")
              => hist[i].outcome # "Skipped"

\* the output tree was empty when this run began
EmptyAtStart == \A p \in DOMAIN fsAtStart : fsAtStart[p] = Absent

=============================================================================
